---- MODULE Spec2Model ----
(***************************************************************************)
(* Model of custom_components/daily_min_max/sensor.py: DailyMinMaxSensor,  *)
(* the daily min/max aggregator, with its helpers _calc_min and _calc_max  *)
(* and the platform setup that creates it.                                 *)
(*                                                                         *)
(* Python values are tagged tuples, so that None, numbers and strings can  *)
(* be compared with each other as Python compares them:                    *)
(*   None = <<"None">>, a string = <<"str", s>>,                           *)
(*   a string holding a finite decimal literal = <<"numstr", q>>,          *)
(*   a finite float = <<"num", q>>, and the floats that are not finite     *)
(*   <<"num", 0, "nan">>, <<"num", 1, "inf">>, <<"num", -1, "inf">>.       *)
(* A finite number q stands for q / Scale rounding units, one rounding     *)
(* unit being 10^-round_digits: readings and persisted values come at a    *)
(* resolution finer than what round() keeps.  A reading half way between   *)
(* two units is rounded as round() rounds the float nearest to it, which   *)
(* depends on round_digits (HalfRoundsUp).                                 *)
(***************************************************************************)
EXTENDS Integers, Sequences, FiniteSets, TLC

\* ---- bounds ----
Scale == 2          \* sub-steps per rounding unit
MaxRaw == 1         \* raw readings are 0 .. MaxRaw sub-steps
MaxSnap == 2        \* persisted numbers are 0 .. MaxSnap - 1 rounding units
MaxPending == 1     \* callbacks dispatched while the restore is suspended
MaxConfigs == 2     \* platform configurations that are set up

\* ---- Python values ----
None == <<"None">>
Num(q) == <<"num", q>>
Str(s) == <<"str", s>>
NumStr(q) == <<"numstr", q>>

STATE_UNKNOWN == Str("unknown")
STATE_UNAVAILABLE == Str("unavailable")

\* the floats that are not finite
NaN == <<"num", 0, "nan">>
Inf == <<"num", 1, "inf">>
NegInf == <<"num", -1, "inf">>
IsNaN(x) == Len(x) = 3 /\ x[3] = "nan"
\* -1, 0, 1 for minus infinity, a finite float, plus infinity
InfSign(x) == IF Len(x) = 3 THEN x[2] ELSE 0

\* val > sval, val < sval on floats: false when either is nan
Gt(a, b) ==
    /\ ~IsNaN(a) /\ ~IsNaN(b)
    /\ \/ InfSign(a) > InfSign(b)
       \/ InfSign(a) = 0 /\ InfSign(b) = 0 /\ a[2] > b[2]
Lt(a, b) == Gt(b, a)
\* a <= b on floats: false as soon as one side is nan
Le(a, b) == ~IsNaN(a) /\ ~IsNaN(b) /\ ~Gt(a, b)

\* the spellings float() takes for nan and the infinities: any mix of
\* upper and lower case, with or without a sign
Signs == {"", "+", "-"}
NanWords ==
    {a \o b \o c : a \in {"n", "N"}, b \in {"a", "A"}, c \in {"n", "N"}}
InfWords ==
    LET inf == {a \o b \o c : a \in {"i", "I"}, b \in {"n", "N"}, c \in {"f", "F"}}
        inity == {a \o b \o c \o d \o e :
                    a \in {"i", "I"}, b \in {"n", "N"}, c \in {"i", "I"},
                    d \in {"t", "T"}, e \in {"y", "Y"}}
    IN  inf \cup {w \o t : w \in inf, t \in inity}
NanLiterals == {sg \o w : sg \in Signs, w \in NanWords}
InfLiterals == {sg \o w : sg \in {"", "+"}, w \in InfWords}
NegInfLiterals == {"-" \o w : w \in InfWords}

\* The characters float() strips from both ends of a string before parsing:
\* space, tab, line feed, carriage return, form feed, vertical tab (U+000B),
\* next line (U+0085), no-break space (U+00A0) and the ogham space mark
\* (U+1680).  It strips U+2000 to U+200A, U+2028, U+2029, U+202F, U+205F and
\* U+3000 too; no string literal can hold those, so no string here does.
Whitespace == {" ", "\t", "\n", "\r", "\f", "", "", " ", " "}
RECURSIVE lstrip(_)
lstrip(s) ==
    IF Len(s) > 0 /\ SubSeq(s, 1, 1) \in Whitespace THEN lstrip(Tail(s)) ELSE s
RECURSIVE rstrip(_)
rstrip(s) ==
    IF Len(s) > 0 /\ SubSeq(s, Len(s), Len(s)) \in Whitespace
    THEN rstrip(SubSeq(s, 1, Len(s) - 1)) ELSE s
strip(s) == rstrip(lstrip(s))

\* float(x): a float, or the exception raised
float(x) ==
    CASE x[1] = "num" -> x
      [] x[1] = "numstr" -> Num(x[2])
      [] x[1] = "str" ->
            LET t == strip(x[2])
            IN  IF t \in NanLiterals THEN NaN
                ELSE IF t \in InfLiterals THEN Inf
                ELSE IF t \in NegInfLiterals THEN NegInf
                ELSE Str("ValueError")
      [] OTHER -> Str("TypeError")

\* 10^n for n >= 0
RECURSIVE Pow10(_)
Pow10(n) == IF n = 0 THEN 1 ELSE 10 * Pow10(n - 1)
\* the e with 2^e <= p / q < 2^(e + 1), for p >= q and for p < q
RECURSIVE Log2Up(_, _)
Log2Up(p, q) == IF 2 * q <= p THEN 1 + Log2Up(p, 2 * q) ELSE 0
RECURSIVE Log2Down(_, _)
Log2Down(p, q) == IF p >= q THEN 0 ELSE Log2Down(2 * p, q) - 1
\* (r * 2^s) mod q, eight doublings at a time
RECURSIVE Doubled(_, _, _)
Doubled(r, q, s) ==
    IF s = 0 THEN r
    ELSE IF s >= 8 THEN Doubled((256 * r) % q, q, s - 8)
    ELSE Doubled((2 * r) % q, q, s - 1)
\* The float nearest to p / q is m / 2^s with 2^52 <= m < 2^53; the
\* remainder of p * 2^s by q tells on which side of p / q it lies: 0 when
\* it is p / q itself, below q / 2 when it is smaller, above when larger.
TieRemainder(p, q) ==
    LET e == IF p >= q THEN Log2Up(p, q) ELSE Log2Down(p, q)
    IN  Doubled(p % q, q, 52 - e)

\* Whether round(x, ndigits) takes the reading written (k + 1/2) units up to
\* k + 1 units.  round() rounds the float that float() made of the literal:
\* when that float is the tie itself (always for ndigits <= 0) the even unit
\* is taken, otherwise the side of the tie the float lies on decides.  A
\* negative reading mirrors the positive one.  The arithmetic stays within
\* 32 bits for ndigits up to 6.
RECURSIVE HalfRoundsUp(_, _)
HalfRoundsUp(ndigits, k) ==
    IF k < 0 THEN ~HalfRoundsUp(ndigits, -k - 1)
    ELSE IF ndigits <= 0 THEN k % 2 = 1
    ELSE LET q == 2 * Pow10(ndigits)
             r == TieRemainder(2 * k + 1, q)
         IN  IF r = 0 THEN k % 2 = 1 ELSE 2 * r > q

\* round(x, ndigits): the nearest rounding unit; nan and the infinities
\* are returned as they are
round(x, ndigits) ==
    IF Len(x) = 3 THEN x
    ELSE LET q == x[2]
             lo == q - (q % Scale)
             r == q % Scale
         IN  IF 2 * r < Scale THEN Num(lo)
             ELSE IF 2 * r > Scale THEN Num(lo + Scale)
             ELSE IF HalfRoundsUp(ndigits, lo \div Scale) THEN Num(lo + Scale)
             ELSE Num(lo)

\* ---- configuration ----
ATTR_MIN_VALUE == "min_value"
ATTR_MAX_VALUE == "max_value"
SENSOR_TYPES == [min_value |-> "min", max_value |-> "max"]
\* the default of CONF_ROUND_DIGITS in PLATFORM_SCHEMA
round_digits == 2
EntityA == Str("sensor.a")
EntityB == Str("sensor.b")
entity_ids == <<EntityA, EntityB>>
TrackedIds == {entity_ids[i] : i \in 1..Len(entity_ids)}
Units == {None, Str("C")}

\* ---- _calc_min / _calc_max ----
RECURSIVE calc_min_loop(_, _, _, _)
calc_min_loop(sensor_values, i, val, entity_id) ==
    IF i > Len(sensor_values) THEN <<entity_id, val>>
    ELSE LET sid == sensor_values[i][1]
             sval == sensor_values[i][2]
         IN  IF sval \notin {STATE_UNKNOWN, STATE_UNAVAILABLE}
                /\ (val = None \/ Gt(val, sval))
             THEN calc_min_loop(sensor_values, i + 1, sval, sid)
             ELSE calc_min_loop(sensor_values, i + 1, val, entity_id)

calc_min(sensor_values) == calc_min_loop(sensor_values, 1, None, None)

RECURSIVE calc_max_loop(_, _, _, _)
calc_max_loop(sensor_values, i, val, entity_id) ==
    IF i > Len(sensor_values) THEN <<entity_id, val>>
    ELSE LET sid == sensor_values[i][1]
             sval == sensor_values[i][2]
         IN  IF sval \notin {STATE_UNKNOWN, STATE_UNAVAILABLE}
                /\ (val = None \/ Lt(val, sval))
             THEN calc_max_loop(sensor_values, i + 1, sval, sid)
             ELSE calc_max_loop(sensor_values, i + 1, val, entity_id)

calc_max(sensor_values) == calc_max_loop(sensor_values, 1, None, None)

\* ---- DailyMinMaxSensor ----
VARIABLES self, pc, ev, ha_state_written, pending, hass
vars == <<self, pc, ev, ha_state_written, pending, hass>>

\* __init__
DailyMinMaxSensor(sensor_type, ndigits, manual_reset_only) ==
    [ sensor_type |-> sensor_type,
      round_digits |-> ndigits,
      manual_reset_only |-> manual_reset_only,
      unit_of_measurement |-> None,
      unit_of_measurement_mismatch |-> FALSE,
      attr_available |-> TRUE,
      min_value |-> None, max_value |-> None, last |-> None,
      min_entity_id |-> None, max_entity_id |-> None, last_entity_id |-> None,
      states |-> << >> ]

\* native_value
native_value(s) ==
    IF s.unit_of_measurement_mismatch THEN None
    ELSE IF s.sensor_type = "min" THEN s.min_value
    ELSE s.max_value

\* the list comprehension of _calc_values
RECURSIVE sensor_values_from(_, _)
sensor_values_from(states, i) ==
    IF i > Len(entity_ids) THEN << >>
    ELSE IF entity_ids[i] \in DOMAIN states
         THEN <<<<entity_ids[i], states[entity_ids[i]]>>>> \o sensor_values_from(states, i + 1)
         ELSE sensor_values_from(states, i + 1)

\* _calc_values with every merge unconditional
calc_values_overwrite(s) ==
    LET sensor_values == sensor_values_from(s.states, 1)
        mn == calc_min(sensor_values)
        mx == calc_max(sensor_values)
        s1 == IF mn[2] # None
              THEN [s EXCEPT !.min_entity_id = mn[1], !.min_value = mn[2]] ELSE s
    IN  IF mx[2] # None
        THEN [s1 EXCEPT !.max_entity_id = mx[1], !.max_value = mx[2]] ELSE s1

\* _calc_values taking the candidates as they come, null included
calc_values_recompute(s) ==
    LET sensor_values == sensor_values_from(s.states, 1)
        mn == calc_min(sensor_values)
        mx == calc_max(sensor_values)
    IN  [s EXCEPT !.min_entity_id = mn[1], !.min_value = mn[2],
                  !.max_entity_id = mx[1], !.max_value = mx[2]]

\* _calc_values
calc_values(s) ==
    LET sensor_values == sensor_values_from(s.states, 1)
        mn == calc_min(sensor_values)
        mx == calc_max(sensor_values)
        s1 == IF mn[2] # None /\ (s.min_value = None \/ Lt(mn[2], s.min_value))
              THEN [s EXCEPT !.min_entity_id = mn[1], !.min_value = mn[2]] ELSE s
    IN  IF mx[2] # None /\ (s1.max_value = None \/ Gt(mx[2], s1.max_value))
        THEN [s1 EXCEPT !.max_entity_id = mx[1], !.max_value = mx[2]] ELSE s1

\* the result of a callback: the object afterwards, and whether it called
\* async_write_ha_state
Result(s, write) == [self |-> s, write |-> write]

\* reset that ignores manual_reset_only
reset_always(s) ==
    Result([s EXCEPT !.min_value = s.last, !.max_value = s.last,
                     !.min_entity_id = None, !.max_entity_id = None,
                     !.last_entity_id = None], TRUE)

\* reset that restarts the window from nothing
reset_to_none(s) ==
    IF s.manual_reset_only THEN Result(s, FALSE)
    ELSE Result([s EXCEPT !.min_value = None, !.max_value = None,
                          !.min_entity_id = None, !.max_entity_id = None,
                          !.last_entity_id = None], TRUE)

\* reset that also forgets the unit state
reset_clears_mismatch(s) ==
    IF s.manual_reset_only THEN Result(s, FALSE)
    ELSE Result([s EXCEPT !.min_value = s.last, !.max_value = s.last,
                          !.min_entity_id = None, !.max_entity_id = None,
                          !.last_entity_id = None,
                          !.unit_of_measurement_mismatch = FALSE,
                          !.attr_available = TRUE], TRUE)

\* reset that also empties the per-source cache
reset_clears_states(s) ==
    IF s.manual_reset_only THEN Result(s, FALSE)
    ELSE Result([s EXCEPT !.min_value = s.last, !.max_value = s.last,
                          !.min_entity_id = None, !.max_entity_id = None,
                          !.last_entity_id = None,
                          !.states = << >>], TRUE)

\* reset(_now)
reset(s) ==
    IF s.manual_reset_only THEN Result(s, FALSE)
    ELSE Result([s EXCEPT !.min_value = s.last, !.max_value = s.last,
                          !.min_entity_id = None, !.max_entity_id = None,
                          !.last_entity_id = None], TRUE)

\* async_reset(_call)
async_reset(s) == reset(s)

\* put(states, k, v): states[k] = v
put(states, k, v) ==
    [x \in DOMAIN states \cup {k} |-> IF x = k THEN v ELSE states[x]]

\* a State object of the host: its state string and its attributes
\* (ATTR_UNIT_OF_MEASUREMENT for a source, the persisted attributes for a
\* restored state)
State(state, attributes) == <<"State", state, attributes>>
state_of(st) == st[2]
unit_of(st) == st[3]
attributes_of(st) == st[3]

\* what the listener did with the event
Outcome(s, new_state) ==
    IF new_state = None \/ state_of(new_state) \in {STATE_UNKNOWN, STATE_UNAVAILABLE}
    THEN "sentinel"
    ELSE LET u == IF s.unit_of_measurement = None THEN unit_of(new_state)
                  ELSE s.unit_of_measurement
         IN  IF u # unit_of(new_state) THEN "mismatch"
             ELSE IF float(state_of(new_state))[1] # "num" THEN "malformed"
             ELSE "accepted"

\* the listener treating a reading in another unit as an unknown reading
async_sensor_state_listener_demote(s, entity, new_state) ==
    IF new_state = None \/ state_of(new_state) \in {STATE_UNKNOWN, STATE_UNAVAILABLE}
    THEN Result(calc_values([s EXCEPT !.states = put(s.states, entity, STATE_UNKNOWN)]), TRUE)
    ELSE
      LET s1 == IF s.unit_of_measurement = None
                THEN [s EXCEPT !.unit_of_measurement = unit_of(new_state)] ELSE s
      IN  IF s1.unit_of_measurement # unit_of(new_state)
          THEN Result(calc_values(
                          [s1 EXCEPT !.unit_of_measurement_mismatch = TRUE,
                                     !.attr_available = FALSE,
                                     !.states = put(s1.states, entity, STATE_UNKNOWN)]),
                      TRUE)
          ELSE LET f == float(state_of(new_state))
               IN  IF f[1] # "num" THEN Result(s1, FALSE)
                   ELSE LET val == round(f, s1.round_digits)
                        IN  Result(calc_values(
                                [s1 EXCEPT !.states = put(s1.states, entity, val),
                                           !.last = val,
                                           !.last_entity_id = entity]), TRUE)

\* _async_sensor_state_listener(event)
async_sensor_state_listener(s, entity, new_state) ==
    IF new_state = None \/ state_of(new_state) \in {STATE_UNKNOWN, STATE_UNAVAILABLE}
    THEN Result(calc_values([s EXCEPT !.states = put(s.states, entity, STATE_UNKNOWN)]), TRUE)
    ELSE
      LET s1 == IF s.unit_of_measurement = None
                THEN [s EXCEPT !.unit_of_measurement = unit_of(new_state)] ELSE s
      IN  IF s1.unit_of_measurement # unit_of(new_state)
          THEN Result([s1 EXCEPT !.unit_of_measurement_mismatch = TRUE,
                                 !.attr_available = FALSE], FALSE)
          ELSE LET f == float(state_of(new_state))
               IN  IF f[1] # "num" THEN Result(s1, FALSE)
                   ELSE LET val == round(f, s1.round_digits)
                        IN  Result(calc_values(
                                [s1 EXCEPT !.states = put(s1.states, entity, val),
                                           !.last = val,
                                           !.last_entity_id = entity]), TRUE)

\* one persisted field parsed by float(); an exception leaves the field as is
restore_field(old, attr) ==
    LET f == float(attr) IN IF f[1] = "num" THEN f ELSE old

\* async_added_to_hass, from the return of async_get_last_state on
restore(s, last_state) ==
    LET s1 == IF last_state = None THEN s
              ELSE [s EXCEPT
                      !.min_value = restore_field(s.min_value, attributes_of(last_state).min_value),
                      !.max_value = restore_field(s.max_value, attributes_of(last_state).max_value),
                      !.last = restore_field(s.last, attributes_of(last_state).last),
                      !.min_entity_id = attributes_of(last_state).min_entity_id,
                      !.max_entity_id = attributes_of(last_state).max_entity_id,
                      !.last_entity_id = attributes_of(last_state).last_entity_id]
    IN  calc_values(s1)

\* ---- the platform ----
\* hass as async_setup_platform sees it: the configurations whose setup is
\* suspended in its await, the entities created so far, how far the host has
\* run async_added_to_hass of each ("created": not started, "awaiting":
\* subscribed and suspended in its await, "running": finished), and the
\* service registry, which holds one handler per service name.  A handler
\* entity.async_reset is the position of its entity.
SERVICE_RESET == "reset"
ResetService == <<"daily_min_max", SERVICE_RESET>>
NoPlatform ==
    [setting_up |-> << >>, entities |-> << >>, pc |-> << >>, services |-> << >>]

\* hass.services.async_register(domain, service, handler)
async_register(services, name, handler) == put(services, name, handler)

\* async_setup_platform up to `await async_setup_reload_service(...)`
async_setup_platform_await(h, config) ==
    [h EXCEPT !.setting_up = Append(@, config)]

\* seq without its i-th element
Without(seq, i) == SubSeq(seq, 1, i - 1) \o SubSeq(seq, i + 1, Len(seq))

\* async_setup_platform after the await, for the i-th suspended setup: the
\* entity is created and handed to async_add_entities, which does not wait
\* for it to be added, and its async_reset is registered
async_setup_platform(h, i) ==
    LET config == h.setting_up[i]
        entity == DailyMinMaxSensor(config.sensor_type, config.round_digits,
                                    config.manual_reset_only)
        entities == Append(h.entities, entity)
    IN  [setting_up |-> Without(h.setting_up, i),
         entities |-> entities,
         pc |-> Append(h.pc, "created"),
         services |-> async_register(h.services, ResetService, Len(entities))]

\* async_added_to_hass of the i-th entity up to its await: both
\* subscriptions are registered
async_added_to_hass_await(h, i) == [h EXCEPT !.pc[i] = "awaiting"]

\* async_added_to_hass of the i-th entity after the await, when nothing was
\* persisted for it: it recomputes
async_added_to_hass(h, i) ==
    [h EXCEPT !.pc[i] = "running", !.entities[i] = restore(@, None)]

\* the host calling the service registered under a name
async_call(h, name) ==
    IF name \notin DOMAIN h.services THEN h
    ELSE LET i == h.services[name]
         IN  [h EXCEPT !.entities[i] = async_reset(@).self]

\* the host delivering one state-change event to every entity subscribed
state_changed(h, entity, new_state) ==
    [h EXCEPT !.entities =
        [i \in DOMAIN @ |->
            IF h.pc[i] # "created"
            THEN async_sensor_state_listener(@[i], entity, new_state).self
            ELSE @[i]]]

\* the time-change callback of the i-th entity
time_changed(h, i) == [h EXCEPT !.entities[i] = reset(@).self]

\* ---- inputs ----
\* readings carry a unit annotation; an unknown or unavailable source has none
Readings == {NumStr(q) : q \in 0..MaxRaw} \cup {Str("nan"), Str("bad")}
NewStates == {None}
             \cup {State(p, None) : p \in {STATE_UNKNOWN, STATE_UNAVAILABLE}}
             \cup {State(p, u) : p \in Readings, u \in Units}

\* What was persisted.  A field is missing, malformed, or a value that
\* extra_state_attributes published: a rounded reading, or the nan of a
\* 'nan' reading, as the float or as its text.  min_value and max_value are
\* any two of these: the sensor publishes every pair, a nan next to a number
\* (one extremum restored, then a 'nan' reading or the reverse) and
\* min_value above max_value (a reading and a sentinel handled during the
\* await, then a store that holds max_value only) included.  Each id is null
\* or a tracked id, whatever the other two are.
SnapAttrs ==
    {None, Str("bad"), NaN, Str("nan")}
        \cup {NumStr(q * Scale) : q \in 0..(MaxSnap - 1)}
SnapId == {None} \cup TrackedIds
SnapIds == {<<mn, mx, la>> : mn \in SnapId, mx \in SnapId, la \in SnapId}
Snapshots == {State(Str("stored"),
                    [min_value |-> mn, max_value |-> mx, last |-> la,
                     min_entity_id |-> ids[1], max_entity_id |-> ids[2],
                     last_entity_id |-> ids[3]]) :
                mn \in SnapAttrs, mx \in SnapAttrs, la \in SnapAttrs, ids \in SnapIds}

\* ---- the last callback that ran (history) ----
\* op is the callback, outcome the branch the listener took, numeric whether
\* the payload of the event is a string that float() accepts
Event(op, outcome, numeric) == [op |-> op, outcome |-> outcome, numeric |-> numeric]

\* ---- actions ----
\* the host dispatches a callback: the subscriptions exist, and at most
\* MaxPending callbacks run while async_added_to_hass is suspended in its await
Dispatch ==
    /\ \/ pc = "running" /\ pending' = pending
       \/ pc = "awaiting" /\ pending < MaxPending /\ pending' = pending + 1
    /\ UNCHANGED pc

\* the sensor as constructed with manual_reset_only = m; the kind is the
\* default of PLATFORM_SCHEMA (native_value is the only reader of it)
Constructed(m) ==
    /\ self = DailyMinMaxSensor(SENSOR_TYPES[ATTR_MAX_VALUE], round_digits, m)
    /\ pc = "created"
    /\ ev = Event("init", "none", FALSE)
    /\ ha_state_written = FALSE
    /\ pending = 0
    /\ hass = NoPlatform

\* manual_reset_only at its default of PLATFORM_SCHEMA: resets take effect
Init == Constructed(FALSE)
\* manual_reset_only set: reset() returns at once
InitManual == Constructed(TRUE)
\* either configuration
InitEither == Init \/ InitManual

\* async_added_to_hass up to the await: both subscriptions are registered
Subscribe ==
    /\ pc = "created"
    /\ pc' = "awaiting"
    /\ ev' = Event("subscribe", "none", FALSE)
    /\ ha_state_written' = FALSE
    /\ UNCHANGED <<self, pending, hass>>

\* async_added_to_hass after the await
Restore ==
    /\ pc = "awaiting"
    /\ \E last_state \in {None} \cup Snapshots :
          /\ self' = restore(self, last_state)
          /\ ev' = Event("restore",
                         IF last_state = None THEN "none" ELSE "snapshot", FALSE)
    /\ pc' = "running"
    /\ ha_state_written' = FALSE
    /\ pending' = 0
    /\ UNCHANGED hass

\* a state-change event of a tracked entity is delivered
Listener ==
    /\ Dispatch
    /\ \E entity \in TrackedIds, new_state \in NewStates :
          \E res \in {async_sensor_state_listener(self, entity, new_state)} :
             /\ self' = res.self
             /\ ha_state_written' = res.write
             /\ ev' = Event("listener", Outcome(self, new_state),
                            new_state # None /\ float(state_of(new_state))[1] = "num")
    /\ UNCHANGED hass

\* the time-change callback fires
ScheduledReset ==
    /\ Dispatch
    /\ \E res \in {reset(self)} :
          /\ self' = res.self
          /\ ha_state_written' = res.write
    /\ ev' = Event("reset", "none", FALSE)
    /\ UNCHANGED hass

\* the reset service is called: its handler is registered by
\* async_setup_platform, so it can run before async_added_to_hass has
\* started as well
ManualReset ==
    /\ \/ Dispatch
       \/ pc = "created" /\ UNCHANGED <<pc, pending>>
    /\ \E res \in {async_reset(self)} :
          /\ self' = res.self
          /\ ha_state_written' = res.write
    /\ ev' = Event("async_reset", "none", FALSE)
    /\ UNCHANGED hass

Next == Subscribe \/ Restore \/ Listener \/ ScheduledReset \/ ManualReset

Spec == Init /\ [][Next]_vars

\* The sensor configured with manual_reset_only.  reset() is the only reader
\* of the flag, so apart from the resets, which then change nothing, the
\* sensor takes the steps it takes under Spec.
SpecManual == InitManual /\ [][Next]_vars

\* The same callbacks when async_get_last_state returns without suspending:
\* async_added_to_hass then runs from its subscriptions to the end of the
\* restore before the host dispatches anything else.
ListenerRunning == pc = "running" /\ Listener
ScheduledResetRunning == pc = "running" /\ ScheduledReset
ManualResetRunning == pc # "awaiting" /\ ManualReset

NextSerial ==
    Subscribe \/ Restore \/ ListenerRunning \/ ScheduledResetRunning
        \/ ManualResetRunning

SpecSerial == InitEither /\ [][NextSerial]_vars

\* Several configurations of the platform in one host: every entity tracks
\* entity_ids, with the kind, round_digits and manual_reset_only at their
\* defaults (a reset request takes effect), and no snapshot is stored.  The
\* single sensor of the specifications above stays as constructed.
PlatformConfigs ==
    {[sensor_type |-> SENSOR_TYPES[ATTR_MAX_VALUE], round_digits |-> round_digits,
      manual_reset_only |-> FALSE]}
\* the readings delivered to the platform: zero and one rounding unit,
\* without a unit of measurement
PlatformStates == {State(NumStr(q), None) : q \in {0, Scale}}

InitPlatform ==
    /\ self = DailyMinMaxSensor(SENSOR_TYPES[ATTR_MAX_VALUE], round_digits, FALSE)
    /\ pc = "created"
    /\ ev = Event("init", "none", FALSE)
    /\ ha_state_written = FALSE
    /\ pending = 0
    /\ hass = NoPlatform

\* the host starts the setup of one more configuration
SetupPlatformAwait ==
    /\ Len(hass.setting_up) + Len(hass.entities) < MaxConfigs
    /\ \E config \in PlatformConfigs : hass' = async_setup_platform_await(hass, config)
    /\ ev' = Event("setup_await", "none", FALSE)
    /\ UNCHANGED <<self, pc, ha_state_written, pending>>

\* a suspended setup resumes and runs to its end
SetupPlatform ==
    /\ \E i \in DOMAIN hass.setting_up : hass' = async_setup_platform(hass, i)
    /\ ev' = Event("setup", "none", FALSE)
    /\ UNCHANGED <<self, pc, ha_state_written, pending>>

\* the host starts async_added_to_hass of an entity it was handed
AddedToHassAwait ==
    /\ \E i \in DOMAIN hass.entities :
          hass.pc[i] = "created" /\ hass' = async_added_to_hass_await(hass, i)
    /\ ev' = Event("added_await", "none", FALSE)
    /\ UNCHANGED <<self, pc, ha_state_written, pending>>

\* async_get_last_state returns to a suspended async_added_to_hass
AddedToHass ==
    /\ \E i \in DOMAIN hass.entities :
          hass.pc[i] = "awaiting" /\ hass' = async_added_to_hass(hass, i)
    /\ ev' = Event("added", "none", FALSE)
    /\ UNCHANGED <<self, pc, ha_state_written, pending>>

\* a tracked source reports a reading
StateChanged ==
    /\ \E i \in DOMAIN hass.entities : hass.pc[i] # "created"
    /\ \E entity \in TrackedIds, new_state \in PlatformStates :
          hass' = state_changed(hass, entity, new_state)
    /\ ev' = Event("state_changed", "accepted", TRUE)
    /\ UNCHANGED <<self, pc, ha_state_written, pending>>

\* the reset time of an added entity comes
TimeChanged ==
    /\ \E i \in DOMAIN hass.entities :
          hass.pc[i] # "created" /\ hass' = time_changed(hass, i)
    /\ ev' = Event("time_changed", "none", FALSE)
    /\ UNCHANGED <<self, pc, ha_state_written, pending>>

\* the reset service is called once
CallResetService ==
    /\ Len(hass.entities) > 0
    /\ hass' = async_call(hass, ResetService)
    /\ ev' = Event("service", "none", FALSE)
    /\ UNCHANGED <<self, pc, ha_state_written, pending>>

NextPlatform ==
    SetupPlatformAwait \/ SetupPlatform \/ AddedToHassAwait \/ AddedToHass
        \/ StateChanged \/ TimeChanged \/ CallResetService

SpecPlatform == InitPlatform /\ [][NextPlatform]_vars

\* ---- properties ----
Min == self.min_value
Max == self.max_value
IdsCleared ==
    /\ self.min_entity_id = None
    /\ self.max_entity_id = None
    /\ self.last_entity_id = None
WindowRestarted == Min = self.last /\ Max = self.last /\ IdsCleared
\* the listener accepted a numeric reading in the step: self'.last is the
\* rounded reading and self'.last_entity_id the source that reported it
Accepted(e) == e.op = "listener" /\ e.outcome = "accepted"
\* the listener got a payload that is neither a sentinel nor a number
Unparsable(e) == e.op = "listener" /\ e.outcome # "sentinel" /\ ~e.numeric

\* C1: after a manual reset request (async_reset), also with
\* manual_reset_only set, min_value = max_value = last and the three source
\* ids are null.
C1_ManualResetAlwaysResets == ev.op = "async_reset" => WindowRestarted

\* C2: with manual_reset_only set, the scheduled reset changes no field of the
\* sensor and does not write the state.
C2_ScheduledResetSkipped ==
    [][(ev'.op = "reset" /\ self.manual_reset_only)
          => (self' = self /\ ~ha_state_written')]_vars
C2_Witness ==
    /\ ev.op = "reset" /\ self.manual_reset_only
    /\ ~ha_state_written
    /\ self.last # None /\ self.last_entity_id # None
    /\ Min # self.last

\* C3: right after a reset that takes effect (manual_reset_only not set),
\* min_value = max_value = last and min/max/last entity ids are null,
\* whatever came before.
C3_AfterEffectiveReset ==
    (ev.op \in {"reset", "async_reset"} /\ ~self.manual_reset_only)
        => (WindowRestarted /\ ha_state_written)
C3_Witness ==
    /\ ev.op = "reset" /\ ~self.manual_reset_only
    /\ self.last # None
    /\ \E e \in DOMAIN self.states :
          self.states[e] # STATE_UNKNOWN /\ Lt(self.states[e], self.last)

\* C4: an accepted numeric reading (after rounding) strictly below the
\* current min_value becomes min_value, and its source min_entity_id.
C4_LowerReadingBecomesMin ==
    [][(Accepted(ev') /\ Min # None /\ Lt(self'.last, Min))
          => (self'.min_value = self'.last
              /\ self'.min_entity_id = self'.last_entity_id)]_vars

\* C5: an accepted numeric reading equal to the current min_value leaves
\* min_entity_id as it was, and one equal to max_value leaves max_entity_id.
C5_EqualReadingKeepsSource ==
    [][Accepted(ev')
          => /\ self'.last = Min => self'.min_entity_id = self.min_entity_id
             /\ self'.last = Max => self'.max_entity_id = self.max_entity_id]_vars

\* C6: no ingestion event (numeric, sentinel, malformed, unit-mismatched)
\* raises a recorded min_value or lowers a recorded max_value.
C6_ExtremaTighten ==
    [][ev'.op = "listener"
          => /\ Min # None => (self'.min_value # None /\ ~Gt(self'.min_value, Min))
             /\ Max # None => (self'.max_value # None /\ ~Lt(self'.max_value, Max))]_vars
C6_Witness ==
    /\ Accepted(ev)
    /\ Min # None /\ Max # None
    /\ Lt(Min, self.last) /\ self.min_entity_id # self.last_entity_id

\* C7: whenever min_value and max_value are both set, min_value <= max_value
\* as Python evaluates it.
C7_MinLeMax == (Min # None /\ Max # None) => Le(Min, Max)

\* C8: no state-change notification and no scheduled reset is handled before
\* the restore of async_added_to_hass has completed.
C8_NoCallbackBeforeRestore == ev.op \in {"listener", "reset"} => pc = "running"

\* C9: a reading that float() rejects changes no field of the sensor, the
\* unit and the mismatch flag included, also when it is the first reading.
C9_UnparsableNoChange == [][Unparsable(ev') => self' = self]_vars

\* C10: once the unit mismatch flag is set no callback clears it, and while
\* it is set the sensor is unavailable and has no native value, whichever
\* kind it is configured as.
C10_MismatchPermanent ==
    /\ [][self.unit_of_measurement_mismatch => self'.unit_of_measurement_mismatch]_vars
    /\ [](self.unit_of_measurement_mismatch
            => /\ ~self.attr_available
               /\ \A a \in DOMAIN SENSOR_TYPES :
                     native_value([self EXCEPT !.sensor_type = SENSOR_TYPES[a]]) = None)
C10_Witness ==
    /\ self.unit_of_measurement_mismatch
    /\ Accepted(ev)
    /\ self.unit_of_measurement # None

\* the listener handled a sentinel (unknown, unavailable or absent state)
Sentinel(e) == e.op = "listener" /\ e.outcome = "sentinel"
\* the step stored the unknown marker for source e
StoredUnknown(e) == self'.states = put(self.states, e, STATE_UNKNOWN)

\* C11: a sentinel reading is stored as unknown for its source and leaves
\* last and last_entity_id unchanged; when its source is the one recorded as
\* min_entity_id, min_value and min_entity_id stay as they are, and the same
\* for max_value and max_entity_id.
C11_SentinelKeepsExtrema ==
    [][Sentinel(ev')
          => /\ \E e \in TrackedIds : StoredUnknown(e)
             /\ self'.last = self.last
             /\ self'.last_entity_id = self.last_entity_id
             /\ \A e \in TrackedIds :
                   StoredUnknown(e)
                      => /\ self.min_entity_id = e
                            => (self'.min_value = Min /\ self'.min_entity_id = e)
                         /\ self.max_entity_id = e
                            => (self'.max_value = Max /\ self'.max_entity_id = e)]_vars
\* what a persisted field stands for: its number, or unset
ParsedOrUnset(attr) == LET f == float(attr) IN IF f[1] = "num" THEN f ELSE None

\* C12: whatever snapshot async_get_last_state returns, the restore leaves
\* each of min_value, max_value and last at the number its own persisted
\* field parses to, or unset when that field is missing or malformed,
\* independently of the other two fields.
C12_RestoreFieldsIndependent ==
    pc = "awaiting"
       => \A last_state \in Snapshots :
             LET r == restore(self, last_state)
                 a == attributes_of(last_state)
             IN  /\ r.min_value = ParsedOrUnset(a.min_value)
                 /\ r.max_value = ParsedOrUnset(a.max_value)
                 /\ r.last = ParsedOrUnset(a.last)

\* a reset callback ran, scheduled or manual
IsReset(e) == e.op \in {"reset", "async_reset"}

\* C13: no step other than a reset takes min_value or max_value from a
\* number to null.
C13_ExtremaStaySet ==
    [][~IsReset(ev')
          => /\ Min # None => self'.min_value # None
             /\ Max # None => self'.max_value # None]_vars
\* every tracked source has gone unknown, the last of them just now, so the
\* recomputation had no candidate, and the extrema are still there
C13_Witness ==
    /\ Sentinel(ev)
    /\ Min # None /\ Max # None
    /\ DOMAIN self.states = TrackedIds
    /\ \A e \in TrackedIds : self.states[e] = STATE_UNKNOWN

\* C14: last is the rounded value of the most recently accepted numeric
\* reading and last_entity_id its source, or null once a reset has taken
\* effect since.  Step by step: an accepted reading sets both; a sentinel,
\* malformed or unit-mismatched reading changes neither; a reset keeps last
\* and nulls last_entity_id when it takes effect; and once a reading has
\* been accepted (last is set only by the listener before the restore) the
\* restore changes neither.
C14_LastIsLatestAccepted ==
    [][/\ Accepted(ev')
          => \E entity \in TrackedIds, new_state \in NewStates :
                /\ Outcome(self, new_state) = "accepted"
                /\ self'.last = round(float(state_of(new_state)), self.round_digits)
                /\ self'.last_entity_id = entity
                /\ self'.states = put(self.states, entity, self'.last)
       /\ (ev'.op = "listener" /\ ~Accepted(ev'))
          => (self'.last = self.last /\ self'.last_entity_id = self.last_entity_id)
       /\ IsReset(ev')
          => /\ self'.last = self.last
             /\ self'.last_entity_id =
                   IF ha_state_written' THEN None ELSE self.last_entity_id
       /\ (ev'.op = "restore" /\ self.last # None)
          => (self'.last = self.last /\ self'.last_entity_id = self.last_entity_id)]_vars

\* C15: min_value and max_value are the smallest and largest of the window
\* baseline (last at the most recent reset, or the restored value) and the
\* readings accepted since.  Step by step: an accepted reading replaces
\* min_value exactly when it is lower (or min_value is null) and max_value
\* exactly when it is higher (or max_value is null), and no other ingestion
\* event changes either, so nothing a source reported before the window can
\* become an extremum.
C15_WindowExtrema ==
    [][ev'.op = "listener"
          => IF Accepted(ev')
             THEN /\ self'.min_value =
                        IF Min = None \/ Lt(self'.last, Min) THEN self'.last ELSE Min
                  /\ self'.max_value =
                        IF Max = None \/ Gt(self'.last, Max) THEN self'.last ELSE Max
             ELSE self'.min_value = Min /\ self'.max_value = Max]_vars

\* the listener rejected the reading for its unit
Mismatched(e) == e.op = "listener" /\ e.outcome = "mismatch"

\* C16: a reading rejected for its unit sets the mismatch flag and makes the
\* sensor unavailable and changes nothing else: states, last, last_entity_id,
\* min/max values and ids and the recorded unit stay, nothing is recomputed
\* and no state is written.
C16_MismatchFrame ==
    [][Mismatched(ev')
          => /\ self' = [self EXCEPT !.unit_of_measurement_mismatch = TRUE,
                                     !.attr_available = FALSE]
             /\ ~ha_state_written']_vars
\* a number in the wrong unit arrived after readings of both sources
C16_Witness ==
    /\ Mismatched(ev) /\ ev.numeric
    /\ self.unit_of_measurement_mismatch /\ ~self.attr_available
    /\ self.last # None
    /\ DOMAIN self.states = TrackedIds
    /\ Min # None /\ Max # None /\ Lt(Min, Max)

\* position of a tracked id in the configured order
Pos(e) == CHOOSE i \in 1..Len(entity_ids) : entity_ids[i] = e
\* the sources whose recorded value is a number
Numeric(states) ==
    {e \in DOMAIN states : states[e] \notin {STATE_UNKNOWN, STATE_UNAVAILABLE}}
\* e holds the smallest (largest) recorded number: at or below (above) the
\* number of every other source, and first in the configured order among the
\* sources that hold the same number
FirstSmallest(states, e) ==
    \A o \in Numeric(states) \ {e} :
       /\ Le(states[e], states[o])
       /\ states[o] = states[e] => Pos(e) <= Pos(o)
FirstLargest(states, e) ==
    \A o \in Numeric(states) \ {e} :
       /\ Le(states[o], states[e])
       /\ states[o] = states[e] => Pos(e) <= Pos(o)

\* C17: over the recorded values taken in the configured order, _calc_min
\* returns the source and value of the smallest number and _calc_max of the
\* largest, the first source in that order among equal values; both return
\* (null, null) when nothing is recorded or every recorded value is a
\* sentinel.
C17_CandidatesAreFirstExtrema ==
    LET sensor_values == sensor_values_from(self.states, 1)
        N == Numeric(self.states)
    IN  IF N = {}
        THEN /\ calc_min(sensor_values) = <<None, None>>
             /\ calc_max(sensor_values) = <<None, None>>
        ELSE /\ \E e \in N : /\ FirstSmallest(self.states, e)
                             /\ calc_min(sensor_values) = <<e, self.states[e]>>
             /\ \E e \in N : /\ FirstLargest(self.states, e)
                             /\ calc_max(sensor_values) = <<e, self.states[e]>>
Keys == DOMAIN self.states

\* C18: the keys of states are tracked ids and are never removed: a listener
\* step leaves the key set as it is or adds one tracked id, the source of the
\* reading when the reading is accepted, and a reset, the subscription and
\* the restore leave it as it is.
C18_KeysOnlyGrow ==
    /\ [](Keys \subseteq TrackedIds)
    /\ [][IF ev'.op = "listener"
          THEN /\ \E e \in TrackedIds :
                     Keys' = Keys \/ Keys' = Keys \cup {e}
               /\ Accepted(ev') => Keys' = Keys \cup {self'.last_entity_id}
               /\ Sentinel(ev') => \E e \in TrackedIds :
                                      StoredUnknown(e) /\ Keys' = Keys \cup {e}
               /\ (~Accepted(ev') /\ ~Sentinel(ev')) => Keys' = Keys
          ELSE Keys' = Keys]_vars
\* a reset took effect with every tracked source recorded
C18_Witness ==
    /\ ev.op = "reset" /\ ~self.manual_reset_only /\ ha_state_written
    /\ Keys = TrackedIds
    /\ self.last # None

\* the window of entity s has been restarted
Restarted(s) ==
    /\ s.min_value = s.last /\ s.max_value = s.last
    /\ s.min_entity_id = None /\ s.max_entity_id = None
    /\ s.last_entity_id = None

\* C19: after one call of the reset service every entity that a platform
\* setup has added is reset, not only the one added last.
C19_ServiceResetsEveryEntity ==
    ev.op = "service"
       => \A i \in 1..Len(hass.entities) : Restarted(hass.entities[i])
====
